---- MODULE Spec2Model ----
(***************************************************************************)
(* Model of the Pagination extension of src/src/index.ts (the first,       *)
(* current definition, lines 22-216): the plugin state reducer, the        *)
(* decorations computation that walks the document and pushes page-break   *)
(* widgets, and the rendering of those widgets by the editor view.         *)
(***************************************************************************)
EXTENDS Integers, Sequences, FiniteSets, TLC

(***************************************************************************)
(* Document trees (prosemirror-model Node).  A node is a record with its   *)
(* type name, its text length (text nodes only) and its child sequence.    *)
(***************************************************************************)
Text(n) == [type |-> "text", size |-> n, content |-> <<>>]

Elem(t, c) == [type |-> t, size |-> 0, content |-> c]

Null == [type |-> "null", size |-> 0, content |-> <<>>]

Para == Elem("paragraph", <<Text(3)>>)

EmptyPara == Elem("paragraph", <<>>)

Item(c) == Elem("listItem", c)

\* node.isBlock: every element type of the schema used here is a block,
\* text is inline.
IsBlock(n) == n.type \in {"paragraph", "blockquote", "bulletList", "orderedList", "listItem"}

RECURSIVE NodeSize(_)
RECURSIVE ContentSize(_)
\* node.nodeSize: a text node counts its characters, any other node its
\* content plus the opening and closing tokens.
NodeSize(n) == IF n.type = "text" THEN n.size ELSE 2 + ContentSize(n.content)

ContentSize(c) == IF c = <<>> THEN 0 ELSE NodeSize(Head(c)) + ContentSize(Tail(c))

RECURSIVE Descendants(_, _)
\* doc.descendants(f): every descendant in document (pre-)order with its
\* position; the callback never returns false, so every node is entered.
Descendants(c, start) ==
    IF c = <<>> THEN <<>>
    ELSE LET n == Head(c)
         IN  <<[node |-> n, pos |-> start]>>
               \o Descendants(n.content, start + 1)
               \o Descendants(Tail(c), start + NodeSize(n))

RECURSIVE FindIndex(_, _, _, _)
\* Fragment.findIndex(pos): index (1-based) and start offset of the child
\* at or after pos; index Len+1 when pos is the end of the fragment.
FindIndex(c, pos, i, curPos) ==
    IF pos = 0 THEN [index |-> 1, offset |-> 0]
    ELSE IF pos = ContentSize(c) THEN [index |-> Len(c) + 1, offset |-> pos]
    ELSE LET end == curPos + NodeSize(c[i])
         IN  IF end >= pos
             THEN IF end = pos THEN [index |-> i + 1, offset |-> end]
                  ELSE [index |-> i, offset |-> curPos]
             ELSE FindIndex(c, pos, i + 1, end)

RECURSIVE NodeAt(_, _)
\* node.nodeAt(pos): the node directly after pos, or null.
NodeAt(n, pos) ==
    LET f == FindIndex(n.content, pos, 1, 0)
    IN  IF f.index > Len(n.content) THEN Null
        ELSE LET child == n.content[f.index]
             IN  IF f.offset = pos \/ child.type = "text" THEN child
                 ELSE NodeAt(child, pos - (f.offset + 1))

(***************************************************************************)
(* Rendered layout: what view.nodeDOM(pos) gives for each visited node.    *)
(* The layout of a document is fixed; a box is drawn the first time the    *)
(* computation measures it and is the same on every later measurement.     *)
(***************************************************************************)
NoDOM == -1

Unmeasured == -2

NoStyle == [marginTop |-> 0, marginBottom |-> 0, paddingTop |-> 0, paddingBottom |-> 0]

OffsetHeights == {0, 100, 500}

\* Computed styles of a list item element, in px as parseFloat reads them.
ItemStyles == {NoStyle, [marginTop |-> 8, marginBottom |-> 8, paddingTop |-> 0, paddingBottom |-> 0]}

NotYet == [offsetHeight |-> Unmeasured, style |-> NoStyle]

\* The boxes a block node can be rendered as: no element, or an element
\* with its offsetHeight and (read for list items only) its computed style.
Boxes(n) ==
    {[offsetHeight |-> NoDOM, style |-> NoStyle]}
      \cup [offsetHeight : OffsetHeights,
            style : IF n.type = "listItem" THEN ItemStyles ELSE {NoStyle}]

calculateListItemHeight(box) ==
    box.offsetHeight + box.style.marginTop + box.style.marginBottom
      + box.style.paddingTop + box.style.paddingBottom

(***************************************************************************)
(* Options.                                                                *)
(***************************************************************************)
addOptions ==
    [pageHeight |-> 1056, pageWidth |-> 816, pageMargin |-> 96,
     label |-> "Page", showPageNumber |-> TRUE]

\* Options the extension can be configured with at construction; the last
\* two leave no page capacity (pageHeight <= 2 * pageMargin).
InitialOptions ==
    {addOptions,
     [addOptions EXCEPT !.pageHeight = 592],
     [addOptions EXCEPT !.pageMargin = 528],
     [addOptions EXCEPT !.pageMargin = 600]}

\* Partial options a caller passes to setPaginationOptions.
Patches ==
    {[pageMargin |-> 50],
     [pageHeight |-> 592, pageMargin |-> 96, label |-> ""],
     [showPageNumber |-> FALSE]}

\* { ...value, ...newOptions }
Merge(value, newOptions) ==
    [k \in DOMAIN value \cup DOMAIN newOptions |->
        IF k \in DOMAIN newOptions THEN newOptions[k] ELSE value[k]]

(***************************************************************************)
(* Documents the editor is opened on.                                      *)
(***************************************************************************)
Doc(c) == Elem("doc", c)

BulletList(c) == Elem("bulletList", c)

OrderedList(c) == Elem("orderedList", c)

ThreeBlocks == Doc(<<Para, Para, Para>>)

OneItem == Doc(<<BulletList(<<Item(<<EmptyPara>>)>>)>>)

TwoItems == Doc(<<BulletList(<<Item(<<EmptyPara>>), Item(<<EmptyPara>>)>>)>>)

BlockThenList == Doc(<<EmptyPara, OrderedList(<<Item(<<EmptyPara>>)>>)>>)

ListThenBlock == Doc(<<BulletList(<<Item(<<EmptyPara>>)>>), Para>>)

Quote == Doc(<<Elem("blockquote", <<EmptyPara, EmptyPara>>), EmptyPara>>)

TwoLists ==
    Doc(<<BulletList(<<Item(<<EmptyPara>>)>>), OrderedList(<<Item(<<EmptyPara>>)>>)>>)

NestedList ==
    Doc(<<BulletList(<<Item(<<EmptyPara, OrderedList(<<Item(<<EmptyPara>>)>>)>>)>>)>>)

Docs == {ThreeBlocks, OneItem, TwoItems, BlockThenList, ListThenBlock, Quote, TwoLists, NestedList}

\* The documents the whole view cycle (transactions, redraws) is run on.
ViewDocs == {ThreeBlocks, OneItem}

\* The traversal of each document, computed once.
NodesOf == [d \in Docs |-> Descendants(d.content, 0)]

\* For each visited node, the node after it: doc.nodeAt(pos + node.nodeSize).
NextOf ==
    [d \in Docs |->
        [i \in 1..Len(NodesOf[d]) |->
            NodeAt(d, NodesOf[d][i].pos + NodeSize(NodesOf[d][i].node))]]

VARIABLES
    doc,                \* state.doc
    layout,             \* the rendered box of each visited node, once measured
    thisOptions,        \* this.options of the extension
    pluginState,        \* pluginKey.getState(state): the options
    metas,              \* the paginationOptions metas of the transactions applied
    tr,                 \* the transaction being applied: its paginationOptions meta
    pc,                 \* where the view is: "decorate", "walk", "view", "apply"
    options,            \* the options the running computation read
    effectivePageHeight,
    cursor,             \* index of the node doc.descendants visits next
    currentPageHeight,
    pageNumber,
    lastNodeWasList,
    currentListHeight,
    listStartPos,
    decorations,        \* positions of the widgets pushed so far
    rendered,           \* per widget, the element its last toDOM call built
    renders,            \* toDOM calls on the current decoration set
    runs,               \* decorations computations started
    prev,               \* the decoration set the current one replaced
    container           \* the width and margin styles onUpdate gave the editor element

env == <<doc, thisOptions, container>>
store == <<pluginState, metas, tr>>
fill == <<currentPageHeight, lastNodeWasList, currentListHeight, listStartPos>>
widgets == <<decorations, rendered>>
vars == <<doc, layout, thisOptions, pluginState, metas, tr, pc, options,
          effectivePageHeight, cursor, currentPageHeight, pageNumber,
          lastNodeWasList, currentListHeight, listStartPos, decorations,
          rendered, renders, runs, prev, container>>

MaxRuns == 3

MaxRenders == 2

Nodes == NodesOf[doc]

InitOn(docs, configured) ==
    /\ doc \in docs
    /\ layout = [i \in 1..Len(NodesOf[doc]) |-> NotYet]
    /\ \E o \in configured : thisOptions = Merge(o, o)
    \* init: () => ({ ...this.options })
    /\ pluginState = Merge(thisOptions, thisOptions)
    /\ metas = <<>>
    /\ tr = <<>>
    /\ pc = "decorate"
    /\ options = pluginState
    /\ effectivePageHeight = 0
    /\ cursor = 0
    /\ currentPageHeight = 0
    /\ pageNumber = 1
    /\ lastNodeWasList = FALSE
    /\ currentListHeight = 0
    /\ listStartPos = 0
    /\ decorations = <<>>
    /\ rendered = <<>>
    /\ renders = 0
    /\ runs = 0
    /\ prev = <<>>
    /\ container = <<>>

Init == InitOn(Docs, InitialOptions)

ViewInit == InitOn(ViewDocs, {addOptions})

(***************************************************************************)
(* The decorations computation.                                            *)
(***************************************************************************)
\* decorations: (state) => { ... } up to the traversal: fresh counters, the
\* options read from the plugin state, the page capacity.
StartDecorations ==
    /\ pc = "decorate"
    /\ prev' = IF runs = 0 THEN <<>>
               ELSE <<[decorations |-> decorations, rendered |-> rendered,
                       options |-> options]>>
    /\ runs' = runs + 1
    /\ decorations' = <<>>
    /\ rendered' = <<>>
    /\ renders' = 0
    /\ currentPageHeight' = 0
    /\ pageNumber' = 1
    /\ lastNodeWasList' = FALSE
    /\ currentListHeight' = 0
    /\ listStartPos' = 0
    /\ options' = pluginState
    /\ effectivePageHeight' = pluginState.pageHeight - 2 * pluginState.pageMargin
    /\ cursor' = 1
    /\ pc' = "walk"
    /\ UNCHANGED <<env, layout, store>>

Visiting == pc = "walk" /\ cursor <= Len(Nodes)

isList(n) == n.type = "bulletList" \/ n.type = "orderedList"

isListItem(n) == n.type = "listItem"

\* this.editor.view.nodeDOM(pos) for the node at index i.
nodeDOM(i) == IF layout[i] = NotYet THEN Boxes(Nodes[i].node) ELSE {layout[i]}

\* nodeHeight = isListItem ? calculateListItemHeight(nodeDOM) : nodeDOM.offsetHeight
nodeHeight(n, box) ==
    IF isListItem(n) THEN calculateListItemHeight(box) ELSE box.offsetHeight

\* const nextNode = doc.nodeAt(pos + node.nodeSize)
nextNode(i) == NextOf[doc][i]

isLastListItem(i) ==
    \/ nextNode(i) = Null
    \/ /\ nextNode(i).type # "listItem"
       /\ nextNode(i).type # "bulletList"
       /\ nextNode(i).type # "orderedList"

\* decorations.push(createPageBreak(pos))
PushPageBreak(pos) ==
    /\ decorations' = Append(decorations, pos)
    /\ rendered' = Append(rendered, <<>>)

\* Overflows that never reports an overflow when there is no capacity.
OverflowsPositiveCapacity(height) ==
    effectivePageHeight > 0 /\ currentPageHeight + height > effectivePageHeight

\* Whether a candidate of the given height goes past the page capacity.
Overflows(height) == currentPageHeight + height > effectivePageHeight

\* HandleList without the assignment of listStartPos that opens a group.
HandleListStaleStart(pos, height) ==
    LET total == (IF ~lastNodeWasList THEN 0 ELSE currentListHeight) + height
    IN  /\ listStartPos' = listStartPos
        /\ currentListHeight' = total
        /\ IF isLastListItem(cursor)
           THEN /\ IF Overflows(total)
                   THEN /\ PushPageBreak(listStartPos)
                        /\ currentPageHeight' = total
                   ELSE /\ currentPageHeight' = currentPageHeight + total
                        /\ UNCHANGED widgets
                /\ lastNodeWasList' = FALSE
           ELSE /\ lastNodeWasList' = TRUE
                /\ UNCHANGED <<currentPageHeight, widgets>>

\* if (isList || isListItem) { ... return; }
HandleList(pos, height) ==
    LET start == IF ~lastNodeWasList THEN pos ELSE listStartPos
        total == (IF ~lastNodeWasList THEN 0 ELSE currentListHeight) + height
    IN  /\ listStartPos' = start
        /\ currentListHeight' = total
        /\ IF isLastListItem(cursor)
           THEN /\ IF Overflows(total)
                   THEN /\ PushPageBreak(start)
                        /\ currentPageHeight' = total
                   ELSE /\ currentPageHeight' = currentPageHeight + total
                        /\ UNCHANGED widgets
                /\ lastNodeWasList' = FALSE
           ELSE /\ lastNodeWasList' = TRUE
                /\ UNCHANGED <<currentPageHeight, widgets>>

\* HandleBlock that, after a break, restarts the page at 0 and not at the
\* height of the block that opened it.
HandleBlockResetZero(pos, height) ==
    /\ lastNodeWasList' = FALSE
    /\ IF Overflows(height)
       THEN /\ PushPageBreak(pos)
            /\ currentPageHeight' = 0
       ELSE /\ currentPageHeight' = currentPageHeight + height
            /\ UNCHANGED widgets
    /\ UNCHANGED <<currentListHeight, listStartPos>>

\* HandleBlock that, after a break, keeps the old page's fill and adds the
\* block to it.
HandleBlockKeepsFill(pos, height) ==
    /\ lastNodeWasList' = FALSE
    /\ IF Overflows(height)
       THEN /\ PushPageBreak(pos)
            /\ currentPageHeight' = currentPageHeight + height
       ELSE /\ currentPageHeight' = currentPageHeight + height
            /\ UNCHANGED widgets
    /\ UNCHANGED <<currentListHeight, listStartPos>>

\* Handle non-list blocks.
HandleBlock(pos, height) ==
    /\ lastNodeWasList' = FALSE
    /\ IF Overflows(height)
       THEN /\ PushPageBreak(pos)
            /\ currentPageHeight' = height
       ELSE /\ currentPageHeight' = currentPageHeight + height
            /\ UNCHANGED widgets
    /\ UNCHANGED <<currentListHeight, listStartPos>>

\* if (!node.isBlock) return;
VisitInline ==
    /\ Visiting
    /\ ~IsBlock(Nodes[cursor].node)
    /\ cursor' = cursor + 1
    /\ UNCHANGED <<env, layout, store, pc, options, effectivePageHeight, fill,
                   pageNumber, widgets, renders, runs, prev>>

\* if (!(nodeDOM instanceof HTMLElement)) return;
VisitUnrendered ==
    /\ Visiting
    /\ IsBlock(Nodes[cursor].node)
    /\ \E box \in nodeDOM(cursor) :
          /\ box.offsetHeight = NoDOM
          /\ layout' = [layout EXCEPT ![cursor] = box]
    /\ cursor' = cursor + 1
    /\ UNCHANGED <<env, store, pc, options, effectivePageHeight, fill,
                   pageNumber, widgets, renders, runs, prev>>

\* VisitZeroHeight without the early return: the node goes on to the
\* handlers with its height of 0.
VisitZeroHeightCounted ==
    /\ Visiting
    /\ IsBlock(Nodes[cursor].node)
    /\ \E box \in nodeDOM(cursor) :
          /\ box.offsetHeight # NoDOM
          /\ nodeHeight(Nodes[cursor].node, box) = 0
          /\ layout' = [layout EXCEPT ![cursor] = box]
          /\ IF isList(Nodes[cursor].node) \/ isListItem(Nodes[cursor].node)
             THEN HandleList(Nodes[cursor].pos, 0)
             ELSE HandleBlock(Nodes[cursor].pos, 0)
    /\ cursor' = cursor + 1
    /\ UNCHANGED <<env, store, pc, options, effectivePageHeight, pageNumber,
                   renders, runs, prev>>

\* if (nodeHeight === 0) return;
VisitZeroHeight ==
    /\ Visiting
    /\ IsBlock(Nodes[cursor].node)
    /\ \E box \in nodeDOM(cursor) :
          /\ box.offsetHeight # NoDOM
          /\ nodeHeight(Nodes[cursor].node, box) = 0
          /\ layout' = [layout EXCEPT ![cursor] = box]
    /\ cursor' = cursor + 1
    /\ UNCHANGED <<env, store, pc, options, effectivePageHeight, fill,
                   pageNumber, widgets, renders, runs, prev>>

VisitList ==
    /\ Visiting
    /\ IsBlock(Nodes[cursor].node)
    /\ isList(Nodes[cursor].node) \/ isListItem(Nodes[cursor].node)
    /\ \E box \in nodeDOM(cursor) :
          /\ box.offsetHeight # NoDOM
          /\ nodeHeight(Nodes[cursor].node, box) # 0
          /\ layout' = [layout EXCEPT ![cursor] = box]
          /\ HandleList(Nodes[cursor].pos, nodeHeight(Nodes[cursor].node, box))
    /\ cursor' = cursor + 1
    /\ UNCHANGED <<env, store, pc, options, effectivePageHeight, pageNumber,
                   renders, runs, prev>>

VisitBlock ==
    /\ Visiting
    /\ IsBlock(Nodes[cursor].node)
    /\ ~(isList(Nodes[cursor].node) \/ isListItem(Nodes[cursor].node))
    /\ \E box \in nodeDOM(cursor) :
          /\ box.offsetHeight # NoDOM
          /\ nodeHeight(Nodes[cursor].node, box) # 0
          /\ layout' = [layout EXCEPT ![cursor] = box]
          /\ HandleBlock(Nodes[cursor].pos, nodeHeight(Nodes[cursor].node, box))
    /\ cursor' = cursor + 1
    /\ UNCHANGED <<env, store, pc, options, effectivePageHeight, pageNumber,
                   renders, runs, prev>>

\* return DecorationSet.create(doc, decorations);
ReturnDecorations ==
    /\ pc = "walk"
    /\ cursor > Len(Nodes)
    /\ pc' = "view"
    /\ UNCHANGED <<env, layout, store, options, effectivePageHeight, cursor,
                   fill, pageNumber, widgets, renders, runs, prev>>

(***************************************************************************)
(* The view draws a widget by calling its toDOM closure; the closure reads *)
(* and increments the computation's pageNumber.                            *)
(***************************************************************************)
\* The element one toDOM call builds.
PageBreakElement ==
    [pageNumberAttr |-> pageNumber,
     indicator |-> IF options.showPageNumber
                   THEN <<IF options.label # "" THEN options.label ELSE "Page",
                          pageNumber>>
                   ELSE <<>>]

Render(k) ==
    /\ pc = "view"
    /\ renders < MaxRenders
    /\ k \in 1..Len(decorations)
    /\ rendered' = [rendered EXCEPT ![k] = <<PageBreakElement>>]
    /\ pageNumber' = pageNumber + 1
    /\ renders' = renders + 1
    /\ UNCHANGED <<env, layout, store, pc, options, effectivePageHeight, cursor,
                   fill, decorations, runs, prev>>

(***************************************************************************)
(* Transactions.                                                           *)
(***************************************************************************)
\* setPaginationOptions(options) dispatched: tr.setMeta('paginationOptions', options)
setPaginationOptions(patch) ==
    /\ pc = "view"
    /\ runs < MaxRuns
    /\ tr' = <<patch>>
    /\ pc' = "apply"
    /\ UNCHANGED <<env, layout, pluginState, metas, options, effectivePageHeight,
                   cursor, fill, pageNumber, widgets, renders, runs, prev>>

\* Any other transaction: no paginationOptions meta.
DispatchOther ==
    /\ pc = "view"
    /\ runs < MaxRuns
    /\ tr' = <<>>
    /\ pc' = "apply"
    /\ UNCHANGED <<env, layout, pluginState, metas, options, effectivePageHeight,
                   cursor, fill, pageNumber, widgets, renders, runs, prev>>

\* apply with the spread operands exchanged: { ...newOptions, ...value }
applyValueLast(meta, value) == IF meta # <<>> THEN Merge(meta[1], value) ELSE value

\* apply: (tr, value) => newOptions ? { ...value, ...newOptions } : value
apply(meta, value) == IF meta # <<>> THEN Merge(value, meta[1]) ELSE value

Apply ==
    /\ pc = "apply"
    /\ pluginState' = apply(tr, pluginState)
    /\ metas' = Append(metas, tr)
    /\ pc' = "decorate"
    /\ UNCHANGED <<env, layout, tr, options, effectivePageHeight, cursor, fill,
                   pageNumber, widgets, renders, runs, prev>>

(***************************************************************************)
(* The update event of the editor, after a transaction that was not a      *)
(* setPaginationOptions command (an edit of the document).                 *)
(***************************************************************************)
\* htmlElement.style.width / .margin from this.options
ContainerStyle(o) ==
    [width |-> <<o.pageWidth, "px">>, margin |-> <<o.pageMargin, "px auto">>]

onUpdate ==
    /\ pc = "view"
    /\ runs > 1
    /\ tr = <<>>
    /\ container' = <<ContainerStyle(thisOptions)>>
    /\ UNCHANGED <<doc, thisOptions, layout, store, pc, options,
                   effectivePageHeight, cursor, fill, pageNumber, widgets,
                   renders, runs, prev>>

\* One decorations computation.
Next ==
    \/ StartDecorations
    \/ VisitInline
    \/ VisitUnrendered
    \/ VisitZeroHeight
    \/ VisitList
    \/ VisitBlock
    \/ ReturnDecorations

\* The view cycle: computations, redraws of the widgets, transactions.
ViewNext ==
    \/ Next
    \/ \E k \in 1..Len(decorations) : Render(k)
    \/ \E patch \in Patches : setPaginationOptions(patch)
    \/ DispatchOther
    \/ Apply
    \/ onUpdate

Spec == Init /\ [][Next]_vars

SpecView == ViewInit /\ [][ViewNext]_vars

(***************************************************************************)
(* Vocabulary of the properties.                                           *)
(***************************************************************************)
Indices == 1..Len(Nodes)

\* The nodes the traversal has already visited.
Visited == {i \in Indices : i < cursor}

ListRelated(i) == isList(Nodes[i].node) \/ isListItem(Nodes[i].node)

\* The measured height of node i; 0 for a node without element.
HeightAt(i) ==
    IF layout[i].offsetHeight \in {NoDOM, Unmeasured} THEN 0
    ELSE nodeHeight(Nodes[i].node, layout[i])

\* Node i is a block with a non-zero measured height.
SizedAt(i) == IsBlock(Nodes[i].node) /\ HeightAt(i) # 0

SpanEnd(i) == Nodes[i].pos + NodeSize(Nodes[i].node)

\* Position p lies strictly inside node c.
StrictlyInside(p, c) == Nodes[c].pos < p /\ p < SpanEnd(c)

\* Node i is nested in a list container.
InsideList(i) ==
    \E c \in Indices : isList(Nodes[c].node) /\ StrictlyInside(Nodes[i].pos, c)

RECURSIVE SumHeights(_)
SumHeights(S) ==
    IF S = {} THEN 0
    ELSE LET i == CHOOSE x \in S : TRUE IN HeightAt(i) + SumHeights(S \ {i})

\* Every block visited so far has an element of non-zero height.
FullyRendered == \A i \in Visited : IsBlock(Nodes[i].node) => SizedAt(i)

BreakPositions == {decorations[k] : k \in 1..Len(decorations)}

Walked == pc = "view"

(***************************************************************************)
(* C1  First-content exemption: when the first visited block with a        *)
(* non-zero height is taller than effectivePageHeight, no break is pushed  *)
(* at that node's position.                                                *)
(***************************************************************************)
FirstSized(i) == i \in Visited /\ SizedAt(i) /\ \A j \in Visited : j < i => ~SizedAt(j)

C1_FirstContentExemption ==
    \A i \in Visited :
        (pc \in {"walk", "view"} /\ FirstSized(i) /\ HeightAt(i) > effectivePageHeight)
            => Nodes[i].pos \notin BreakPositions

(***************************************************************************)
(* C2  List atomicity: once the traversal of a fully rendered document is  *)
(* over, a list container that is not nested in another list and whose     *)
(* items' heights sum to more than effectivePageHeight has exactly one     *)
(* break in its span, at its own start position; when the list ends the    *)
(* document, currentPageHeight is the summed height of its items.          *)
(***************************************************************************)
ItemsOf(c) ==
    {i \in Indices : isListItem(Nodes[i].node) /\ StrictlyInside(Nodes[i].pos, c)}

BreaksIn(c) ==
    {k \in 1..Len(decorations) :
        Nodes[c].pos <= decorations[k] /\ decorations[k] < SpanEnd(c)}

C2_ListAtomicity ==
    \A c \in Indices :
        (/\ Walked
         /\ FullyRendered
         /\ isList(Nodes[c].node)
         /\ ~InsideList(c)
         /\ SumHeights(ItemsOf(c)) > effectivePageHeight)
            => /\ Cardinality(BreaksIn(c)) = 1
               /\ \A k \in BreaksIn(c) : decorations[k] = Nodes[c].pos
               /\ SpanEnd(c) = ContentSize(doc.content)
                     => currentPageHeight = SumHeights(ItemsOf(c))

(***************************************************************************)
(* C3  No mid-atomic split: in a fully rendered document every break       *)
(* position is the start of an ordinary block outside any list or the      *)
(* start of a list group (a list container outside any list that does not  *)
(* follow another list), and no break position lies strictly inside the    *)
(* span of a block node.                                                   *)
(***************************************************************************)
\* Node i is a list container that opens a maximal run of lists.
OpensGroup(i) ==
    /\ isList(Nodes[i].node)
    /\ ~InsideList(i)
    /\ \A j \in Indices : (SpanEnd(j) = Nodes[i].pos /\ ~InsideList(j)) => ~isList(Nodes[j].node)

AtomicStart(p) ==
    \E i \in Indices :
        /\ Nodes[i].pos = p
        /\ IsBlock(Nodes[i].node)
        /\ ~InsideList(i)
        /\ ~ListRelated(i) \/ OpensGroup(i)

C3_NoMidAtomicSplit ==
    FullyRendered =>
        \A p \in BreakPositions :
            /\ AtomicStart(p)
            /\ \A c \in Indices : IsBlock(Nodes[c].node) => ~StrictlyInside(p, c)

(***************************************************************************)
(* C4  Page numbering: the element drawn for the k-th pushed break carries *)
(* page number k + 1, whatever the order and number of the redraws.        *)
(***************************************************************************)
C4_PageNumbering ==
    \A k \in 1..Len(rendered) :
        rendered[k] # <<>> => rendered[k][1].pageNumberAttr = k + 1

(***************************************************************************)
(* C5  Ordinary-block break rule: visiting an ordinary block of non-zero   *)
(* height h pushes a break at the block's position and sets                *)
(* currentPageHeight to h exactly when currentPageHeight + h exceeds       *)
(* effectivePageHeight; otherwise it pushes nothing and adds h.  Three     *)
(* blocks of heights 500, 500, 100 on a page of 864 end with one break, at *)
(* the second block.                                                       *)
(***************************************************************************)
\* This step visits node `cursor`, an ordinary block of non-zero height.
OrdinaryStep ==
    /\ pc = "walk"
    /\ cursor' = cursor + 1
    /\ IsBlock(Nodes[cursor].node)
    /\ ~ListRelated(cursor)
    /\ layout'[cursor].offsetHeight \notin {NoDOM, Unmeasured}
    /\ layout'[cursor].offsetHeight # 0

OrdinaryRule ==
    LET h == layout'[cursor].offsetHeight
    IN  IF currentPageHeight + h > effectivePageHeight
        THEN /\ decorations' = Append(decorations, Nodes[cursor].pos)
             /\ currentPageHeight' = h
        ELSE /\ decorations' = decorations
             /\ currentPageHeight' = currentPageHeight + h

NumericScenario ==
    /\ doc = ThreeBlocks
    /\ Walked
    /\ effectivePageHeight = 864
    /\ <<HeightAt(1), HeightAt(3), HeightAt(5)>> = <<500, 500, 100>>

C5_OrdinaryBlockRule ==
    /\ [][OrdinaryStep => OrdinaryRule]_vars
    /\ [](NumericScenario => decorations = <<Nodes[3].pos>>)

C5_Witness == NumericScenario /\ decorations = <<5>> /\ currentPageHeight = 600

(***************************************************************************)
(* C6  Monotonic positions: the positions pushed by one computation are    *)
(* strictly increasing in emission order.                                  *)
(***************************************************************************)
C6_MonotonicPositions ==
    \A k \in 1..Len(decorations) :
        \A m \in 1..Len(decorations) : k < m => decorations[k] < decorations[m]

\* A group of several list nodes has just been closed with a break at
\* listStartPos, after an earlier break.
C6_Witness ==
    /\ pc = "walk"
    /\ cursor > 1
    /\ ListRelated(cursor - 1)
    /\ SizedAt(cursor - 1)
    /\ ~lastNodeWasList
    /\ currentListHeight > HeightAt(cursor - 1)
    /\ Len(decorations) >= 2
    /\ decorations[Len(decorations)] = listStartPos
    /\ listStartPos < Nodes[cursor - 1].pos

(***************************************************************************)
(* C7  Zero-height skip: visiting a block that has no element or whose     *)
(* height is 0 pushes no break and leaves currentPageHeight unchanged.     *)
(***************************************************************************)
\* This step visits node `cursor`, a block without element or of height 0.
ZeroStep ==
    /\ pc = "walk"
    /\ cursor' = cursor + 1
    /\ IsBlock(Nodes[cursor].node)
    /\ \/ layout'[cursor].offsetHeight = NoDOM
       \/ nodeHeight(Nodes[cursor].node, layout'[cursor]) = 0

C7_ZeroHeightSkip ==
    [][ZeroStep => (decorations' = decorations /\ currentPageHeight' = currentPageHeight)]_vars

\* A list item of height 0 and, before it, an ordinary block of height 0
\* have been skipped while the page was already over its capacity.
C7_Witness ==
    /\ pc = "walk"
    /\ cursor > 2
    /\ isListItem(Nodes[cursor - 1].node)
    /\ layout[cursor - 1].offsetHeight = 0
    /\ Nodes[cursor - 2].node.type = "paragraph"
    /\ layout[cursor - 2].offsetHeight = 0
    /\ currentPageHeight > effectivePageHeight

(***************************************************************************)
(* C8  Config shallow merge: the plugin's options hold, for every key, the *)
(* value of the latest applied patch that mentions the key, or the initial *)
(* option when none does; a transaction without patch changes nothing;    *)
(* and a running or finished computation has read exactly these options.   *)
(***************************************************************************)
Keys == {"pageHeight", "pageWidth", "pageMargin", "label", "showPageNumber"}

\* The applied patches that mention key.
Mentions(key) ==
    {n \in 1..Len(metas) : metas[n] # <<>> /\ key \in DOMAIN metas[n][1]}

Latest(S) == CHOOSE n \in S : \A m \in S : m <= n

Folded(key) ==
    IF Mentions(key) = {} THEN thisOptions[key]
    ELSE metas[Latest(Mentions(key))][1][key]

C8_ConfigShallowMerge ==
    /\ DOMAIN pluginState = Keys
    /\ \A key \in Keys : pluginState[key] = Folded(key)
    /\ pc \in {"walk", "view"} =>
          /\ options = pluginState
          /\ effectivePageHeight = Folded("pageHeight") - 2 * Folded("pageMargin")

\* Two patches and then a plain transaction were applied; the later patch
\* restored the margin the first one had changed, and the next computation
\* runs with the merged options.
C8_Witness ==
    /\ metas = <<<<[pageMargin |-> 50]>>,
                 <<[pageHeight |-> 592, pageMargin |-> 96, label |-> ""]>>>>
    /\ pc = "walk"
    /\ pluginState.pageMargin = 96
    /\ pluginState.pageHeight = 592
    /\ pluginState.pageWidth = 816
    /\ pluginState.showPageNumber
    /\ effectivePageHeight = 400

(***************************************************************************)
(* C9  Determinism: a computation that read the same options as the one it *)
(* replaces (the document and its layout being the same) has pushed the    *)
(* same positions, and every widget drawn for both carries the same page   *)
(* number and label.                                                       *)
(***************************************************************************)
C9_Determinism ==
    (Walked /\ prev # <<>> /\ prev[1].options = options) =>
        /\ decorations = prev[1].decorations
        /\ \A k \in 1..Len(rendered) :
              (k <= Len(prev[1].rendered) /\ rendered[k] # <<>> /\ prev[1].rendered[k] # <<>>)
                  => rendered[k] = prev[1].rendered[k]

(***************************************************************************)
(* C10  List group accounting: a list group is closed only at the last     *)
(* list node of its maximal run, with the summed non-zero heights of all   *)
(* the run's list nodes, and the traversal ends with no group left open.   *)
(***************************************************************************)
\* Block nodes strictly between i and j in the traversal.
Between(i, j) == {m \in Indices : i < m /\ m < j /\ IsBlock(Nodes[m].node)}

\* List nodes i and j belong to one run: only list nodes and blocks nested
\* in lists are visited between them.
SameRun(i, j) ==
    \A m \in Between(i, j) \cup Between(j, i) : ListRelated(m) \/ InsideList(m)

RunOf(i) == {j \in Indices : ListRelated(j) /\ SameRun(i, j)}

\* This step visits list node `cursor` and closes the group.
ClosingStep ==
    /\ pc = "walk"
    /\ cursor' = cursor + 1
    /\ ListRelated(cursor)
    /\ layout'[cursor].offsetHeight # NoDOM
    /\ nodeHeight(Nodes[cursor].node, layout'[cursor]) # 0
    /\ ~lastNodeWasList'

\* The summed heights of the list nodes of S, as the layout has them after
\* this step.
RECURSIVE SumHeightsAfter(_)
SumHeightsAfter(S) ==
    IF S = {} THEN 0
    ELSE LET i == CHOOSE x \in S : TRUE
         IN  (IF layout'[i].offsetHeight \in {NoDOM, Unmeasured} THEN 0
              ELSE nodeHeight(Nodes[i].node, layout'[i]))
               + SumHeightsAfter(S \ {i})

C10_ListGroupAccounting ==
    [][/\ ClosingStep =>
            /\ \A j \in RunOf(cursor) : j <= cursor
            /\ currentListHeight' = SumHeightsAfter(RunOf(cursor))
       /\ (pc = "walk" /\ pc' = "view") => ~lastNodeWasList]_vars

(***************************************************************************)
(* C11  Page-capacity invariant, as claimed: after each visited node,      *)
(* currentPageHeight is within effectivePageHeight unless the page holds   *)
(* exactly one unit (the block or list group a break has just been pushed  *)
(* for) and that unit alone exceeds effectivePageHeight.                   *)
(***************************************************************************)
\* This step visits node `cursor`.
NodeStep == pc = "walk" /\ cursor' = cursor + 1

\* The height the step compared with the capacity: the node's, or the
\* accumulated height of the list group.
UnitHeight ==
    IF ListRelated(cursor) THEN currentListHeight'
    ELSE nodeHeight(Nodes[cursor].node, layout'[cursor])

\* The step pushed a break and the unit it compared is alone on the new
\* page, which it overflows.
OpensPageAlone ==
    /\ Len(decorations') = Len(decorations) + 1
    /\ currentPageHeight' = UnitHeight
    /\ UnitHeight > effectivePageHeight

\* The step placed nothing on the page.
PlacesNothing == currentPageHeight' = currentPageHeight /\ decorations' = decorations

Degenerate == pc \in {"walk", "view"} /\ effectivePageHeight <= 0

\* The list nodes at which the traversal closes a group.
Closers == {i \in Indices : ListRelated(i) /\ SizedAt(i) /\ isLastListItem(i)}

OrdinaryUnits == {i \in Indices : IsBlock(Nodes[i].node) /\ ~ListRelated(i) /\ SizedAt(i)}

C12_DegenerateConfig ==
    /\ [][(Degenerate /\ OrdinaryStep)
             => decorations' = Append(decorations, Nodes[cursor].pos)]_vars
    /\ [][(Degenerate /\ ClosingStep)
             => decorations' = Append(decorations, listStartPos')]_vars
    /\ [][Degenerate => (pluginState' = pluginState /\ thisOptions' = thisOptions)]_vars
    /\ [](Degenerate =>
             /\ options = pluginState
             /\ pluginState.pageHeight <= 2 * pluginState.pageMargin
             /\ pc = "walk" => ENABLED Next
             /\ pc = "view" =>
                   Len(decorations) = Cardinality(OrdinaryUnits) + Cardinality(Closers))

\* Two adjacent lists, every block rendered, walked without capacity: a
\* break for each of the three groups closed and for each paragraph.
C12_Witness ==
    /\ Degenerate
    /\ Walked
    /\ doc = TwoLists
    /\ FullyRendered
    /\ decorations = <<0, 2, 6, 7, 8>>

(***************************************************************************)
(* C13  Runtime config consistency: the width and margin onUpdate gives    *)
(* the editor element are those of the options in the plugin state, which  *)
(* the decorations computation reads.                                      *)
(***************************************************************************)
C13_RuntimeConfigConsistency ==
    [][container' # container =>
          /\ container'[1].width = <<pluginState.pageWidth, "px">>
          /\ container'[1].margin = <<pluginState.pageMargin, "px auto">>]_vars

(***************************************************************************)
(* The older decorations implementation, run on the same document, the     *)
(* same rendered heights and the same plugin state.                        *)
(***************************************************************************)
\* node.isBlock && nodeDOM instanceof HTMLElement ? nodeDOM.offsetHeight : 0
legacyNodeHeight(i) ==
    IF IsBlock(Nodes[i].node) /\ layout[i].offsetHeight \notin {NoDOM, Unmeasured}
    THEN layout[i].offsetHeight
    ELSE 0

\* The descendants callback from node i on, with the page height so far and
\* the positions pushed so far.
RECURSIVE legacyDescendants(_, _, _)
legacyDescendants(i, pageHeightSoFar, pushed) ==
    IF i > Len(Nodes) THEN pushed
    ELSE LET full == pageHeightSoFar + legacyNodeHeight(i)
                        > pluginState.pageHeight - 2 * pluginState.pageMargin
         IN  legacyDescendants(i + 1,
                 (IF full THEN 0 ELSE pageHeightSoFar) + legacyNodeHeight(i),
                 IF full THEN Append(pushed, Nodes[i].pos) ELSE pushed)

legacyDecorations == legacyDescendants(1, 0, <<>>)

(***************************************************************************)
(* C14  Legacy equivalence: on a document without list-related nodes the   *)
(* older implementation emits breaks at exactly the positions of the       *)
(* current one, for the same heights and options.                          *)
(***************************************************************************)
ListFree == \A i \in Indices : ~ListRelated(i)

C14_LegacyEquivalence ==
    (Walked /\ ListFree /\ FullyRendered) => legacyDecorations = decorations

====
